---- MODULE Spec2Model ----
(***************************************************************************)
(* CenterNet ground-truth builder                                          *)
(*   official/vision/beta/projects/centernet/ops/gt_builder.py             *)
(*   build_heatmap_and_regressed_features                                  *)
(*                                                                         *)
(* One call of the builder is a run of the state machine: the inputs are   *)
(* drawn in Init, every block of the function body is one action, and the  *)
(* locals and the five returned tensors are the state.                     *)
(*                                                                         *)
(* Numbers.  A tensor element of a floating dtype is a pair <<m, e>>       *)
(* standing for m * 2^e, kept normalised (m odd, or <<0, 0>>).  Every      *)
(* arithmetic operation computes the exact result and rounds it to the     *)
(* significand width of the dtype (round to nearest, ties to even), as     *)
(* IEEE arithmetic does.  Exponent range (overflow, subnormals) is not     *)
(* modelled: every magnitude here lies far inside the range of the three   *)
(* dtypes.                                                                 *)
(***************************************************************************)
EXTENDS Integers, Sequences, FiniteSets, TLC

\* ------------------------------------------------------------------ bounds

\* capacity of the padded annotation record (max_num_instances)
MaxInstances == 2
\* number of heatmap channels (num_classes)
NumClasses == 2

\* ------------------------------------------------------- integer helpers

RECURSIVE Pow2(_)
Pow2(k) == IF k <= 0 THEN 1 ELSE 2 * Pow2(k - 1)

RECURSIVE BitLen(_)
BitLen(n) == IF n <= 0 THEN 0 ELSE 1 + BitLen(n \div 2)

Abs(n) == IF n < 0 THEN -n ELSE n

RECURSIVE GCD(_, _)
GCD(a, b) == IF b = 0 THEN a ELSE GCD(b, a % b)

\* ---------------------------------------------------- floating-point values

RECURSIVE Norm(_, _)
Norm(m, e) ==
  IF m = 0 THEN <<0, 0>>
  ELSE IF m % 2 = 0 THEN Norm(m \div 2, e + 1)
  ELSE <<m, e>>

\* significand width of the three accepted dtypes (lines 81-86)
Precision(dt) ==
  CASE dt = "float16"  -> 11
    [] dt = "bfloat16" -> 8
    [] dt = "float32"  -> 24

\* x rounded to the significand width of dt: nearest, ties to even
RoundTo(dt, x) ==
  LET p   == Precision(dt)
      mag == Abs(x[1])
      s   == BitLen(mag) - p
  IN  IF s <= 0 THEN x
      ELSE LET q    == mag \div Pow2(s)
               rem  == mag % Pow2(s)
               half == Pow2(s - 1)
               up   == rem > half \/ (rem = half /\ q % 2 = 1)
               r    == IF up THEN q + 1 ELSE q
           IN  Norm((IF x[1] < 0 THEN -r ELSE r), x[2] + s)

\* exact sum m1*2^e1 + m2*2^e2
ExactAdd(a, b) ==
  LET e == IF a[2] < b[2] THEN a[2] ELSE b[2]
  IN  Norm(a[1] * Pow2(a[2] - e) + b[1] * Pow2(b[2] - e), e)

Neg(a) == <<-a[1], a[2]>>

FAdd(dt, a, b) == RoundTo(dt, ExactAdd(a, b))
FSub(dt, a, b) == RoundTo(dt, ExactAdd(a, Neg(b)))
FMul(dt, a, b) == RoundTo(dt, Norm(a[1] * b[1], a[2] + b[2]))

\* a / b for a divisor that is a power of two (every input size and the
\* constant 2 here): the quotient is exact
FDiv(dt, a, b) == RoundTo(dt, Norm(a[1] * b[1], a[2] - b[2]))

FFloor(a) ==
  IF a[2] >= 0 THEN a ELSE Norm(a[1] \div Pow2(-a[2]), 0)

FCeil(a) == Neg(FFloor(Neg(a)))

\* a < b
FLess(a, b) == ExactAdd(a, Neg(b))[1] < 0

FMax(a, b) == IF FLess(a, b) THEN b ELSE a

\* tf.cast(<int>, dtype)
FromInt(dt, n) == RoundTo(dt, Norm(n, 0))

\* tf.cast(<float>, tf.int32): truncation toward zero
ToInt(a) ==
  IF a[2] >= 0 THEN a[1] * Pow2(a[2])
  ELSE IF a[1] >= 0 THEN a[1] \div Pow2(-a[2])
  ELSE -((-a[1]) \div Pow2(-a[2]))

FZero == <<0, 0>>
FOne == <<1, 0>>
FTwo == <<1, 1>>

\* ------------------------------------------------------------ heatmap cells

(* A heatmap cell is 0, NaN, or exp(n/d) for a rational n/d in lowest terms
   (d > 0): the renderer's values exp(-(dy^2+dx^2)/(2 sigma^2)) are kept as
   their exponent, so that comparing and equating them is exact.  1 is
   exp(0). *)
HZero == <<"zero", 0, 1>>
HNaN == <<"nan", 0, 1>>
HOne == <<"exp", 0, 1>>

HExp(n, d) ==
  LET g == GCD(Abs(n), Abs(d))
      s == IF d < 0 THEN -1 ELSE 1
  IN  <<"exp", s * (n \div g), s * (d \div g)>>

\* a <= b as real numbers (neither is NaN)
HLeq(a, b) ==
  IF a[1] = "zero" THEN TRUE
  ELSE IF b[1] = "zero" THEN FALSE
  ELSE a[2] * b[3] <= b[2] * a[3]

\* 0 <= a <= 1
HInUnit(a) == a[1] = "zero" \/ (a[1] = "exp" /\ a[2] <= 0 /\ a[3] > 0)

\* ------------------------------------------------------------------ inputs

Dtypes == {"float16", "bfloat16", "float32", "float64"}
AcceptedDtypes == {"float16", "bfloat16", "float32"}

I(n) == Norm(n, 0)

(* input_size and output_size, each [height, width], with the class_offset
   of the call: the first scales both axes by 1/2, the second scales height
   by 1/4 and width by 1. *)
Setups ==
  { [input |-> <<8, 8>>, output |-> <<4, 4>>, class_offset |-> 1],
    [input |-> <<8, 4>>, output |-> <<2, 4>>, class_offset |-> 0] }

(* Annotated instances: bbox rows are [ymin, xmin, ymax, xmax] in input
   pixels (float32 values), class is the integer class id. *)
Pool ==
  { [box |-> <<I(0), I(0), I(2), I(2)>>, class |-> 1],
    \* same cell and class as the first, other centre and size
    [box |-> <<I(0), I(0), I(3), I(1)>>, class |-> 1],
    \* thin box touching the bottom edge: ymin = 8 - 1/32
    [box |-> <<Norm(255, -5), I(1), I(8), I(3)>>, class |-> 2],
    \* zero-area box on the bottom border
    [box |-> <<I(8), I(4), I(8), I(4)>>, class |-> 1],
    \* box reaching above the image
    [box |-> <<I(-2), I(0), I(1), I(2)>>, class |-> 0],
    [box |-> <<I(4), I(2), I(7), I(4)>>, class |-> 2] }

(* What the slots at index >= num_detections hold: the padding of
   pad_max_instances (zeros, class -1) or stale data. *)
Garbage ==
  { [box |-> <<I(0), I(0), I(0), I(0)>>, class |-> -1],
    [box |-> <<I(1), I(1), I(5), I(3)>>, class |-> 1] }

Records(k) ==
  { [i \in 1..MaxInstances |-> IF i <= k THEN f[i] ELSE g] :
      f \in [1..k -> Pool], g \in Garbage }

(* What the linked reduce_max kernel returns for max(a, b) when a or b is
   NaN; the kernel does not fix it: NaN, the first operand (the running
   maximum) or the second. *)
NanRules == {"propagate", "first", "second"}

(* use_gaussian_bump, gaussian_rad, gaussian_iou (a rational <<num, den>>),
   the estimator in use and the NaN rule of the maximum (varied where a NaN
   can arise). *)
Modes ==
  { [bump |-> TRUE,  rad |-> -1,  iou |-> <<1, 2>>,  est |-> "overlap",
     nan |-> "propagate"],
    [bump |-> TRUE,  rad |-> -1,  iou |-> <<7, 10>>, est |-> "negative",
     nan |-> "propagate"],
    [bump |-> TRUE,  rad |-> 2,   iou |-> <<7, 10>>, est |-> "overlap",
     nan |-> "propagate"],
    [bump |-> TRUE,  rad |-> -2,  iou |-> <<7, 10>>, est |-> "overlap",
     nan |-> "propagate"],
    [bump |-> TRUE,  rad |-> 257, iou |-> <<7, 10>>, est |-> "overlap",
     nan |-> "propagate"],
    [bump |-> FALSE, rad |-> -1,  iou |-> <<7, 10>>, est |-> "overlap",
     nan |-> "propagate"] }
  \cup { [bump |-> TRUE, rad |-> 0, iou |-> <<7, 10>>, est |-> "overlap",
          nan |-> rule] : rule \in NanRules }

\* ------------------------------------------------------------------- state

VARIABLES
  \* arguments
  labels, output_size, input_size, num_classes, max_num_instances,
  use_gaussian_bump, gaussian_rad, gaussian_iou, class_offset, dtype,
  \* which stand-in of preprocess_ops.gaussian_radius is linked
  est_kind,
  \* the NaN rule of the linked tf.math.reduce_max kernel
  nan_max,
  \* position in the function body
  pc,
  \* locals
  num_objects, boxes, classes, width_ratio, height_ratio,
  scale_xct, scale_yct, scale_xct_floor, scale_yct_floor,
  ct_offset_values, box_heights_widths, radius, ct_blobs,
  \* output tensors and the returned dictionary
  ct_heatmap, ct_offset, size, box_mask, box_indices, returned,
  \* arguments of every call made to gaussian_radius and to draw_gaussian
  estimator_calls, renderer_calls

args == <<labels, output_size, input_size, num_classes, max_num_instances,
          use_gaussian_bump, gaussian_rad, gaussian_iou, class_offset, dtype,
          est_kind, nan_max>>
locals == <<num_objects, boxes, classes, width_ratio, height_ratio,
            scale_xct, scale_yct, scale_xct_floor, scale_yct_floor,
            ct_offset_values, box_heights_widths>>
outputs == <<ct_heatmap, ct_offset, size, box_mask, box_indices>>
calls == <<estimator_calls, renderer_calls>>
vars == <<args, pc, locals, radius, ct_blobs, outputs, returned, calls>>

\* a local or an output that has not been assigned yet
Unset == <<>>

\* ---------------------------------------------------------- tensor helpers

\* tf.range(1, n + 1) in place of tf.range(n)
RangeFromOne(n) == [i \in 1..n |-> i]

\* tf.range(n)
Range(n) == [i \in 1..n |-> i - 1]

\* all index tuples of a tensor of the given shape
Indices(shape) ==
  CASE Len(shape) = 1 -> {<<i>> : i \in 0..(shape[1] - 1)}
    [] Len(shape) = 2 -> (0..(shape[1] - 1)) \X (0..(shape[2] - 1))
    [] Len(shape) = 3 ->
         (0..(shape[1] - 1)) \X (0..(shape[2] - 1)) \X (0..(shape[3] - 1))

\* tf.zeros(shape, ...) holding the given zero
Zeros(shape, zero) == [ix \in Indices(shape) |-> zero]

\* a [n, 2] tensor or a [n, 2, ...] tensor as the flat list of its rows' entries
Flatten(rows) ==
  [k \in 1..(2 * Len(rows)) |-> rows[(k + 1) \div 2][((k - 1) % 2) + 1]]

(* tf.tensor_scatter_nd_update: the updates are written in order, so the
   last write to an index wins.  An index outside the tensor is skipped here
   (what the GPU kernel does); the CPU kernel raises instead, which is the
   caller's other branch. *)
RECURSIVE ScatterFrom(_, _, _, _)
ScatterFrom(tensor, indices, updates, k) ==
  IF k > Len(indices) THEN tensor
  ELSE ScatterFrom(
         IF indices[k] \in DOMAIN tensor
         THEN [tensor EXCEPT ![indices[k]] = updates[k]] ELSE tensor,
         indices, updates, k + 1)

TensorScatterNdUpdate(tensor, indices, updates) ==
  ScatterFrom(tensor, indices, updates, 1)

(* preprocess_ops.cartesian_product of two ranges: every pair <<a, b>>, the
   first range varying slowest. *)
cartesian_product(a, b) ==
  [k \in 1..(Len(a) * Len(b)) |->
     <<a[((k - 1) \div Len(b)) + 1], b[((k - 1) % Len(b)) + 1]>>]

\* tf.reshape of a flat list of 2 * n index pairs to [n, 2, 2]
Reshape(flat, n) == [i \in 1..n |-> <<flat[2 * i - 1], flat[2 * i]>>]

\* ------------------------------------------------- external collaborators

(* preprocess_ops.gaussian_radius(det_size, min_overlap).  Its three
   quadratics are not part of this file; the builder only relies on it being
   a function of the ceil-rounded (height, width) and the minimum IoU.  Two
   stand-ins: "overlap" returns 2 (h + w) (1 - iou) cut to a multiple of
   1/2 (so it may be 0 or fractional), "negative" returns a value below 0. *)
gaussian_radius(det_size, min_overlap) ==
  LET hw == ToInt(det_size[1]) + ToInt(det_size[2])
      q  == (4 * hw * (min_overlap[2] - min_overlap[1])) \div min_overlap[2]
  IN  IF est_kind = "overlap" THEN Norm(q, -1) ELSE Norm(-(2 * hw) - 1, -2)

(* One entry of the Gaussian kernel of the given radius, dy rows and dx
   columns off its centre: exp(-(dy^2 + dx^2) / (2 sigma^2)), sigma =
   radius / 3.  For radius 0 the exponent is 0/0. *)
gaussian_penalty(r, dy, dx) ==
  IF r = 0 THEN HNaN ELSE HExp(-9 * (dy * dy + dx * dx), 2 * r * r)

(* preprocess_ops.draw_gaussian(hm_shape, blob, dtype), blob = (class, row,
   col, radius): a zero grid of shape hm_shape with the kernel written into
   channel class, in the (2r+1) x (2r+1) window around (row, col) clipped to
   the grid. *)
draw_gaussian(hm_shape, blob, dt) ==
  LET cls == ToInt(blob[1])
      row == ToInt(blob[2])
      col == ToInt(blob[3])
      r   == ToInt(blob[4])
  IN  [c \in Indices(hm_shape) |->
        IF /\ c[3] = cls
           /\ Abs(c[1] - row) <= r
           /\ Abs(c[2] - col) <= r
        THEN gaussian_penalty(r, c[1] - row, c[2] - col)
        ELSE HZero]

(* the maximum of the running maximum a and the next value b; with a NaN
   operand the result is what the kernel's rule makes it *)
HMax(a, b) ==
  IF a[1] = "nan" \/ b[1] = "nan"
  THEN CASE nan_max = "propagate" -> HNaN
         [] nan_max = "first" -> a
         [] nan_max = "second" -> b
  ELSE IF HLeq(a, b) THEN b ELSE a

(* tf.math.reduce_max(ct_gaussians, axis=0) at cell c over the first k
   grids, reduced in the order of the instances *)
RECURSIVE MaxUpTo(_, _, _)
MaxUpTo(grids, k, c) ==
  IF k = 1 THEN grids[1][c]
  ELSE HMax(MaxUpTo(grids, k - 1, c), grids[k][c])

ReduceMax(grids) ==
  [c \in DOMAIN grids[1] |-> MaxUpTo(grids, Len(grids), c)]

Blank ==
  /\ pc = "entry"
  /\ num_objects = Unset /\ boxes = Unset /\ classes = Unset
  /\ width_ratio = Unset /\ height_ratio = Unset
  /\ scale_xct = Unset /\ scale_yct = Unset
  /\ scale_xct_floor = Unset /\ scale_yct_floor = Unset
  /\ ct_offset_values = Unset /\ box_heights_widths = Unset
  /\ radius = Unset /\ ct_blobs = Unset
  /\ ct_heatmap = Unset /\ ct_offset = Unset /\ size = Unset
  /\ box_mask = Unset /\ box_indices = Unset /\ returned = Unset
  /\ estimator_calls = <<>> /\ renderer_calls = <<>>

Init ==
  /\ \E k \in 0..MaxInstances, sz \in Setups, md \in Modes :
       \E rec \in Records(k) :
         /\ labels = [bbox |-> [i \in 1..MaxInstances |-> rec[i].box],
                      classes |-> [i \in 1..MaxInstances |-> rec[i].class],
                      num_detections |-> k]
         /\ output_size = sz.output
         /\ input_size = sz.input
         /\ class_offset = sz.class_offset
         /\ use_gaussian_bump = md.bump
         /\ gaussian_rad = md.rad
         /\ gaussian_iou = md.iou
         /\ est_kind = md.est
         /\ nan_max = md.nan
  /\ num_classes = NumClasses
  /\ max_num_instances = MaxInstances
  /\ dtype \in Dtypes
  /\ Blank

\* ------------------------------------------------- the __main__ fixture

\* lines 265-266, 250: output_size, input_size and the padded capacity
FixtureOutput == 128
FixtureInput == 512
FixtureCapacity == 128

\* lines 242-246
FixtureBoxes ==
  << <<I(10), I(300), I(15), I(370)>>,
     <<I(100), I(300), I(150), I(370)>>,
     <<I(15), I(100), I(200), I(170)>> >>

(* lines 242-279: the three boxes of class 1 (in any rotation of their
   order), padded with zero boxes and class -1, built for a 512 x 512 input
   and a 128 x 128 output with the default arguments; the number of
   detections, the number of classes, the dtype and use_gaussian_bump are
   varied around the fixture's. *)
InitFixture ==
  /\ \E k \in 0..Len(FixtureBoxes), rot \in 0..(Len(FixtureBoxes) - 1) :
       labels = [bbox |-> [i \in 1..FixtureCapacity |->
                            IF i <= Len(FixtureBoxes)
                            THEN FixtureBoxes[((i - 1 + rot)
                                                % Len(FixtureBoxes)) + 1]
                            ELSE <<I(0), I(0), I(0), I(0)>>],
                 classes |-> [i \in 1..FixtureCapacity |->
                                IF i <= Len(FixtureBoxes) THEN 1 ELSE -1],
                 num_detections |-> k]
  /\ output_size = <<FixtureOutput, FixtureOutput>>
  /\ input_size = <<FixtureInput, FixtureInput>>
  /\ num_classes \in {1, NumClasses}
  /\ max_num_instances = FixtureCapacity
  /\ use_gaussian_bump \in BOOLEAN
  /\ gaussian_rad = -1
  /\ gaussian_iou = <<7, 10>>
  /\ est_kind = "overlap"
  /\ nan_max = "propagate"
  /\ class_offset = 0
  /\ dtype \in Dtypes
  /\ Blank

\* ----------------------------------------------------------------- actions

\* the float32 branch of the dtype switch left out
DtypeAcceptedNoFloat32(dt) == dt = "float16" \/ dt = "bfloat16"

\* lines 81-87: the three dtype strings that are mapped to a tf dtype
DtypeAccepted(dt) == dt = "float16" \/ dt = "bfloat16" \/ dt = "float32"

(* lines 81-90: the dtype string is mapped to a tf dtype, anything else
   raises. *)
CheckDtype ==
  /\ pc = "entry"
  /\ pc' = IF DtypeAccepted(dtype) THEN "read" ELSE "config_error"
  /\ UNCHANGED <<args, locals, radius, ct_blobs, outputs, returned, calls>>

\* the capacity of the record taken for its number of objects
NumObjectsCapacity(lab) == Len(lab.bbox)

\* line 94
NumObjects(lab) == lab.num_detections

\* line 97: cast to dtype and keep the first n rows
SliceBoxes(lab, n, dt) ==
  SubSeq([i \in 1..Len(lab.bbox) |->
            [j \in 1..4 |-> RoundTo(dt, lab.bbox[i][j])]], 1, n)

\* line 99: subtract class_offset, cast to dtype, keep the first n rows
SliceClasses(lab, offset, n, dt) ==
  SubSeq([i \in 1..Len(lab.classes) |->
            FromInt(dt, lab.classes[i] - offset)], 1, n)

\* lines 102-108: output extent / input extent, both cast to dtype
Ratio(out, in, dt) == FDiv(dt, FromInt(dt, out), FromInt(dt, in))

\* the sum of the two corners scaled, the halving left out
ScaledCenterNoHalf(lo, hi, ratio, dt) == FMul(dt, FAdd(dt, lo, hi), ratio)

\* lines 114-115 and 119-120: centre of a box along one axis, scaled
ScaledCenter(lo, hi, ratio, dt) ==
  FMul(dt, FDiv(dt, FAdd(dt, lo, hi), FTwo), ratio)

\* lines 135-139: extent of a box along one axis, scaled
ScaledExtent(lo, hi, ratio, dt) == FMul(dt, FSub(dt, hi, lo), ratio)

\* lines 130-131: tf.stack([y residual, x residual], axis=-1)
OffsetValues(yct, yfl, xct, xfl, dt) ==
  [i \in 1..Len(yct) |->
     <<FSub(dt, yct[i], yfl[i]), FSub(dt, xct[i], xfl[i])>>]

\* the sizes stacked as (width, height)
WidthsHeights(bxs, hr, wr, dt) ==
  [i \in 1..Len(bxs) |->
     <<ScaledExtent(bxs[i][2], bxs[i][4], wr, dt),
       ScaledExtent(bxs[i][1], bxs[i][3], hr, dt)>>]

\* line 143: tf.stack([box_heights, box_widths], axis=-1)
HeightsWidths(bxs, hr, wr, dt) ==
  [i \in 1..Len(bxs) |->
     <<ScaledExtent(bxs[i][1], bxs[i][3], hr, dt),
       ScaledExtent(bxs[i][2], bxs[i][4], wr, dt)>>]

\* lines 94-143: every local computed from the record
Scaled(lab) ==
  LET n   == NumObjects(lab)
      bxs == SliceBoxes(lab, n, dtype)
      wr  == Ratio(output_size[2], input_size[2], dtype)
      hr  == Ratio(output_size[1], input_size[1], dtype)
      xct == [i \in 1..n |-> ScaledCenter(bxs[i][2], bxs[i][4], wr, dtype)]
      yct == [i \in 1..n |-> ScaledCenter(bxs[i][1], bxs[i][3], hr, dtype)]
      xfl == [i \in 1..n |-> FFloor(xct[i])]
      yfl == [i \in 1..n |-> FFloor(yct[i])]
  IN  [num_objects |-> n,
       boxes |-> bxs,
       classes |-> SliceClasses(lab, class_offset, n, dtype),
       width_ratio |-> wr,
       height_ratio |-> hr,
       scale_xct |-> xct,
       scale_yct |-> yct,
       scale_xct_floor |-> xfl,
       scale_yct_floor |-> yfl,
       ct_offset_values |-> OffsetValues(yct, yfl, xct, xfl, dtype),
       box_heights_widths |-> HeightsWidths(bxs, hr, wr, dtype)]

(* lines 94-143: read the record, slice it to its first num_detections
   rows, and compute every per-instance quantity. *)
ReadAndScale ==
  /\ pc = "read"
  /\ LET L == Scaled(labels)
     IN  /\ num_objects' = L.num_objects
         /\ boxes' = L.boxes
         /\ classes' = L.classes
         /\ width_ratio' = L.width_ratio
         /\ height_ratio' = L.height_ratio
         /\ scale_xct' = L.scale_xct
         /\ scale_yct' = L.scale_yct
         /\ scale_xct_floor' = L.scale_xct_floor
         /\ scale_yct_floor' = L.scale_yct_floor
         /\ ct_offset_values' = L.ct_offset_values
         /\ box_heights_widths' = L.box_heights_widths
  /\ pc' = "alloc"
  /\ UNCHANGED <<args, radius, ct_blobs, outputs, returned, calls>>

\* line 147
HeatmapShape == <<output_size[1], output_size[2], num_classes>>

\* lines 145-159: the five zero tensors
AllocOutputs ==
  /\ pc = "alloc"
  /\ ct_heatmap' = Zeros(HeatmapShape, HZero)
  /\ ct_offset' = Zeros(<<max_num_instances, 2>>, FZero)
  /\ size' = Zeros(<<max_num_instances, 2>>, FZero)
  /\ box_mask' = Zeros(<<max_num_instances>>, 0)
  /\ box_indices' = Zeros(<<max_num_instances, 2>>, 0)
  /\ pc' = "branch"
  /\ UNCHANGED <<args, locals, radius, ct_blobs, returned, calls>>

\* line 169: the argument of every estimator call, tf.math.ceil of a row
EstimatorArgs(hws, iou) ==
  [i \in 1..Len(hws) |-> <<<<FCeil(hws[i][1]), FCeil(hws[i][2])>>, iou>>]

\* the floored estimate without the lower bound of 1
AnalyticRadiusNoMinimum(hws, iou) ==
  [i \in 1..Len(hws) |->
     FFloor(gaussian_radius(EstimatorArgs(hws, iou)[i][1], iou))]

\* lines 167-171: one estimator call per row, floored, at least 1
AnalyticRadius(hws, iou) ==
  [i \in 1..Len(hws) |->
     FMax(FFloor(gaussian_radius(EstimatorArgs(hws, iou)[i][1], iou)), FOne)]

\* lines 173-174: the constant in dtype, one per slot, cut to n
ConstantRadius(rad, cap, n, dt) ==
  SubSeq([i \in 1..cap |-> FromInt(dt, rad)], 1, n)

\* lines 166-174
Radius(hws) ==
  IF gaussian_rad = -1
  THEN AnalyticRadius(hws, gaussian_iou)
  ELSE ConstantRadius(gaussian_rad, max_num_instances, Len(hws), dtype)

\* lines 176-177
Blobs(cls, yfl, xfl, rds) ==
  [i \in 1..Len(cls) |-> <<cls[i], yfl[i], xfl[i], rds[i]>>]

\* lines 180-186: one grid per blob and their elementwise maximum
GaussianHeatmap(blobs) ==
  ReduceMax([i \in 1..Len(blobs) |->
               draw_gaussian(HeatmapShape, blobs[i], dtype)])

(* lines 162-186: the radius of every instance, one rendered grid per
   instance, and their elementwise maximum. *)
DrawGaussians ==
  /\ pc = "branch"
  /\ num_objects > 0
  /\ use_gaussian_bump
  /\ LET rds   == Radius(box_heights_widths)
         blobs == Blobs(classes, scale_yct_floor, scale_xct_floor, rds)
     IN  /\ radius' = rds
         /\ ct_blobs' = blobs
         /\ estimator_calls' =
              IF gaussian_rad = -1
              THEN EstimatorArgs(box_heights_widths, gaussian_iou)
              ELSE estimator_calls
         /\ renderer_calls' = blobs
         /\ ct_heatmap' = GaussianHeatmap(blobs)
  /\ pc' = "encode"
  /\ UNCHANGED <<args, locals, ct_offset, size, box_mask, box_indices, returned>>

\* the indices stacked as (col, row, class)
HeatmapUpdateIndicesSwapped(yfl, xfl, cls) ==
  [i \in 1..Len(cls) |-> <<ToInt(xfl[i]), ToInt(yfl[i]), ToInt(cls[i])>>]

\* lines 191-193: (row, col, class) of every instance as int32
HeatmapUpdateIndices(yfl, xfl, cls) ==
  [i \in 1..Len(cls) |-> <<ToInt(yfl[i]), ToInt(xfl[i]), ToInt(cls[i])>>]

\* lines 195-197: a one written at every index
OnesHeatmap(heat, indices) ==
  TensorScatterNdUpdate(heat, indices, [i \in 1..Len(indices) |-> HOne])

(* lines 188-197: a one at (row, col, class) of every instance. *)
ScatterOnes ==
  /\ pc = "branch"
  /\ num_objects > 0
  /\ ~use_gaussian_bump
  /\ LET ct_hm_update_indices ==
           HeatmapUpdateIndices(scale_yct_floor, scale_xct_floor, classes)
     IN  ct_heatmap' = OnesHeatmap(ct_heatmap, ct_hm_update_indices)
  /\ pc' = "encode"
  /\ UNCHANGED <<args, locals, radius, ct_blobs, ct_offset, size, box_mask,
                 box_indices, returned, calls>>

(* lines 195-197 on a CPU kernel: an index outside the heatmap makes
   tf.tensor_scatter_nd_update raise. *)
ScatterOnesRaises ==
  /\ pc = "branch"
  /\ num_objects > 0
  /\ ~use_gaussian_bump
  /\ \E i \in 1..num_objects :
       HeatmapUpdateIndices(scale_yct_floor, scale_xct_floor, classes)[i]
         \notin DOMAIN ct_heatmap
  /\ pc' = "index_error"
  /\ UNCHANGED <<args, locals, radius, ct_blobs, outputs, returned, calls>>

\* lines 200-203
UpdateIndices(n) == Reshape(cartesian_product(Range(n), Range(2)), n)

\* lines 206-211, 222-223: the [n, 2] values written at update_indices
EncodeRows(tensor, n, values) ==
  TensorScatterNdUpdate(tensor, Flatten(UpdateIndices(n)), Flatten(values))

\* lines 214-216
EncodeMask(mask, n) ==
  TensorScatterNdUpdate(mask, [i \in 1..n |-> <<Range(n)[i]>>],
                        [i \in 1..n |-> 1])

\* lines 219-221
BoxIndexValues(yfl, xfl) ==
  [i \in 1..Len(yfl) |-> <<ToInt(yfl[i]), ToInt(xfl[i])>>]

(* lines 199-223: the rows of the valid instances are written into the
   four per-instance tensors. *)
EncodeInstances ==
  /\ pc = "encode"
  /\ ct_offset' = EncodeRows(ct_offset, num_objects, ct_offset_values)
  /\ size' = EncodeRows(size, num_objects, box_heights_widths)
  /\ box_mask' = EncodeMask(box_mask, num_objects)
  /\ box_indices' = EncodeRows(box_indices, num_objects,
                               BoxIndexValues(scale_yct_floor, scale_xct_floor))
  /\ pc' = "return"
  /\ UNCHANGED <<args, locals, radius, ct_blobs, ct_heatmap, returned, calls>>

(* lines 161, 224-236: with no object the whole block is skipped; the five
   tensors are returned as a dictionary. *)
Return ==
  /\ \/ pc = "return"
     \/ pc = "branch" /\ num_objects = 0
  /\ returned' = [ct_heatmaps |-> ct_heatmap,
                  ct_offset |-> ct_offset,
                  size |-> size,
                  box_mask |-> box_mask,
                  box_indices |-> box_indices]
  /\ pc' = "done"
  /\ UNCHANGED <<args, locals, radius, ct_blobs, outputs, calls>>

Next ==
  \/ CheckDtype
  \/ ReadAndScale
  \/ AllocOutputs
  \/ DrawGaussians
  \/ ScatterOnes
  \/ ScatterOnesRaises
  \/ EncodeInstances
  \/ Return

Spec == Init /\ [][Next]_vars

(* lines 92-236 as one function of the record (the arguments other than the
   record are those of the call in progress): the dictionary a call on lab
   returns when no kernel raises. *)
BundleOf(lab) ==
  LET L == Scaled(lab)
      n == L.num_objects
      zero_heat == Zeros(HeatmapShape, HZero)
      heat ==
        IF n > 0
        THEN IF use_gaussian_bump
             THEN GaussianHeatmap(
                    Blobs(L.classes, L.scale_yct_floor, L.scale_xct_floor,
                          Radius(L.box_heights_widths)))
             ELSE OnesHeatmap(
                    zero_heat,
                    HeatmapUpdateIndices(L.scale_yct_floor, L.scale_xct_floor,
                                         L.classes))
        ELSE zero_heat
      rows == Zeros(<<max_num_instances, 2>>, FZero)
  IN  [ct_heatmaps |-> heat,
       ct_offset |-> EncodeRows(rows, n, L.ct_offset_values),
       size |-> EncodeRows(rows, n, L.box_heights_widths),
       box_mask |-> EncodeMask(Zeros(<<max_num_instances>>, 0), n),
       box_indices |-> EncodeRows(Zeros(<<max_num_instances, 2>>, 0), n,
                                  BoxIndexValues(L.scale_yct_floor,
                                                 L.scale_xct_floor))]

SpecFixture == InitFixture /\ [][Next]_vars

\* ------------------------------------------------------------------ claims

Done == pc = "done"

\* the count of the record handed in
Count == labels.num_detections

\* the slots of the per-instance tensors
Slots == 0..(max_num_instances - 1)

\* row i of a [max_num_instances, 2] tensor
Row(tensor, i) == <<tensor[<<i, 0>>], tensor[<<i, 1>>]>>

(* C1: in every returned bundle box_mask[i] = 1 exactly for the slots
   i < count, and the ct_offset, size and box_indices rows of every slot
   i >= count are (0, 0). *)
C1_MaskIffValid ==
  Done =>
    \A i \in Slots :
      /\ returned.box_mask[<<i>>] \in {0, 1}
      /\ returned.box_mask[<<i>>] = 1 <=> i < Count
      /\ i >= Count =>
           /\ Row(returned.ct_offset, i) = <<FZero, FZero>>
           /\ Row(returned.size, i) = <<FZero, FZero>>
           /\ Row(returned.box_indices, i) = <<0, 0>>

\* a bundle for one valid instance followed by a slot holding stale data
C1_Witness ==
  /\ Done
  /\ Count = 1
  /\ labels.classes[2] = 1
  /\ labels.bbox[2] = <<I(1), I(1), I(5), I(3)>>
  /\ returned.box_mask[<<0>>] = 1
  /\ returned.box_mask[<<1>>] = 0
  /\ Row(returned.size, 0) # <<FZero, FZero>>

(* C2: with count = 0 (and an accepted dtype) the call never raises, never
   calls the radius estimator or the renderer, and returns the five tensors
   in their full shapes, all zeros, whatever the slots, use_gaussian_bump
   and gaussian_rad hold. *)
C2_EmptyRecord ==
  (Count = 0 /\ dtype \in AcceptedDtypes) =>
    /\ pc \notin {"config_error", "index_error"}
    /\ estimator_calls = <<>>
    /\ renderer_calls = <<>>
    /\ Done =>
         /\ returned.ct_heatmaps =
              [c \in Indices(<<output_size[1], output_size[2], num_classes>>)
                 |-> HZero]
         /\ returned.box_mask = [ix \in Indices(<<max_num_instances>>) |-> 0]
         /\ returned.ct_offset =
              [ix \in Indices(<<max_num_instances, 2>>) |-> FZero]
         /\ returned.size =
              [ix \in Indices(<<max_num_instances, 2>>) |-> FZero]
         /\ returned.box_indices =
              [ix \in Indices(<<max_num_instances, 2>>) |-> 0]

\* an empty record whose slots hold stale boxes, in Gaussian mode
C2_Witness ==
  /\ Done
  /\ Count = 0
  /\ use_gaussian_bump
  /\ gaussian_rad = 0
  /\ labels.classes[1] = 1
  /\ labels.bbox[1] = <<I(1), I(1), I(5), I(3)>>

\* the fixture's first box and sizes
IsFixtureBox(i) ==
  /\ input_size = <<512, 512>>
  /\ output_size = <<128, 128>>
  /\ i < Count
  /\ labels.bbox[i + 1] = <<I(10), I(300), I(15), I(370)>>

\* the locals are assigned from ReadAndScale on
Scaled_ == pc \in {"alloc", "branch", "encode", "return", "done", "index_error"}

(* C3 as stated: the fixture box (10, 300, 15, 370), 512 x 512 to
   128 x 128, has scaled centre (xct, yct) = (16.75, 3.125), index (3, 16),
   offset (0.125, 0.75), size (1.25, 17.5) and mask 1. *)
C3_AsStated ==
  \A i \in Slots :
    IsFixtureBox(i) =>
      /\ Scaled_ =>
           /\ scale_xct[i + 1] = Norm(67, -2)
           /\ scale_yct[i + 1] = Norm(25, -3)
           /\ ToInt(scale_yct_floor[i + 1]) = 3
           /\ ToInt(scale_xct_floor[i + 1]) = 16
      /\ Done =>
           /\ Row(returned.box_indices, i) = <<3, 16>>
           /\ Row(returned.ct_offset, i) = <<Norm(1, -3), Norm(3, -2)>>
           /\ Row(returned.size, i) = <<Norm(5, -2), Norm(35, -1)>>
           /\ returned.box_mask[<<i>>] = 1

(* C3 amended: in float32 (the fixture's dtype) or float16 the scaled centre
   is (xct, yct) = (83.75, 3.125) and the index (fy, fx) = (3, 83); offset
   (0.125, 0.75), size (1.25, 17.5) and mask 1 are as stated. *)
C3_FixtureValues ==
  \A i \in Slots :
    (IsFixtureBox(i) /\ dtype \in {"float32", "float16"}) =>
      /\ Scaled_ =>
           /\ scale_xct[i + 1] = Norm(335, -2)
           /\ scale_yct[i + 1] = Norm(25, -3)
           /\ ToInt(scale_yct_floor[i + 1]) = 3
           /\ ToInt(scale_xct_floor[i + 1]) = 83
      /\ Done =>
           /\ Row(returned.box_indices, i) = <<3, 83>>
           /\ Row(returned.ct_offset, i) = <<Norm(1, -3), Norm(3, -2)>>
           /\ Row(returned.size, i) = <<Norm(5, -2), Norm(35, -1)>>
           /\ returned.box_mask[<<i>>] = 1

\* the fixture as run: three detections, float32, the box in row 0
C3_Witness ==
  /\ Done
  /\ dtype = "float32"
  /\ Count = 3
  /\ input_size = <<512, 512>> /\ output_size = <<128, 128>>
  /\ labels.bbox[1] = <<I(10), I(300), I(15), I(370)>>
  /\ Row(returned.box_indices, 0) = <<3, 83>>

(* C4: a dtype other than 'float16', 'bfloat16', 'float32' ends the call in
   the configuration error with no field of the record read and no tensor
   built or returned; the three accepted dtypes never raise it. *)
C4_DtypeGate ==
  /\ dtype \notin AcceptedDtypes =>
       /\ pc \in {"entry", "config_error"}
       /\ num_objects = Unset /\ boxes = Unset /\ classes = Unset
       /\ ct_heatmap = Unset /\ ct_offset = Unset /\ size = Unset
       /\ box_mask = Unset /\ box_indices = Unset
       /\ returned = Unset
  /\ dtype \in AcceptedDtypes => pc # "config_error"

\* the call has raised the configuration error
C4_Witness ==
  /\ pc = "config_error"
  /\ dtype = "float64"
  /\ Count > 0
  /\ returned = Unset

\* instance i (0-based) as the builder sees it
Fy(i) == ToInt(scale_yct_floor[i + 1])
Fx(i) == ToInt(scale_xct_floor[i + 1])
ClassId(i) == labels.classes[i + 1] - class_offset

\* cell c lies in the clipped window of instance i, in its channel
InWindow(c, i) ==
  /\ c[3] = ClassId(i)
  /\ Abs(c[1] - Fy(i)) <= ToInt(radius[i + 1])
  /\ Abs(c[2] - Fx(i)) <= ToInt(radius[i + 1])

\* some valid instance contributes to cell c
Contributes(c) ==
  \E i \in 0..(Count - 1) :
    IF use_gaussian_bump THEN InWindow(c, i)
    ELSE c = <<Fy(i), Fx(i), ClassId(i)>>

(* C5 as stated: in every returned bundle every heatmap cell lies in [0, 1],
   and every cell no valid instance contributes to (outside every clipped
   window or channel in Gaussian mode, no instance's (fy, fx, class)
   otherwise) is exactly 0. *)
C5_AsStated ==
  Done =>
    \A c \in DOMAIN returned.ct_heatmaps :
      /\ HInUnit(returned.ct_heatmaps[c])
      /\ ~Contributes(c) => returned.ct_heatmaps[c] = HZero

\* the permutations of 1..n
Perms(n) == {p \in [1..n -> 1..n] : \A i, j \in 1..n : p[i] = p[j] => i = j}

\* the record with the (box, class) pair p[i] moved to position i
Permuted(lab, p) ==
  [lab EXCEPT
     !.bbox = [i \in 1..Len(lab.bbox) |->
                 IF i \in DOMAIN p THEN lab.bbox[p[i]] ELSE lab.bbox[i]],
     !.classes = [i \in 1..Len(lab.classes) |->
                    IF i \in DOMAIN p THEN lab.classes[p[i]]
                    ELSE lab.classes[i]]]

(* C6 as stated: for every permutation of the first count (box, class)
   pairs the heatmap of the permuted record equals the one returned, and the
   ct_offset, size, box_indices and box_mask rows are the returned rows
   moved with their instances. *)
C6_AsStated ==
  Done =>
    \A p \in Perms(Count) :
      LET B == BundleOf(Permuted(labels, p))
      IN  /\ B.ct_heatmaps = returned.ct_heatmaps
          /\ \A i \in 1..Count :
               /\ Row(B.ct_offset, i - 1) = Row(returned.ct_offset, p[i] - 1)
               /\ Row(B.size, i - 1) = Row(returned.size, p[i] - 1)
               /\ Row(B.box_indices, i - 1) =
                    Row(returned.box_indices, p[i] - 1)
               /\ B.box_mask[<<i - 1>>] = returned.box_mask[<<p[i] - 1>>]

(* C7: without the Gaussian bump the heatmap holds only 0 and 1, a cell is 1
   exactly when some valid instance has (fy, fx, class - class_offset) equal
   to the cell, also when several instances share the cell, and neither the
   radius estimator nor the renderer is called. *)
C7_DisabledSplat ==
  (Done /\ ~use_gaussian_bump) =>
    /\ \A c \in DOMAIN returned.ct_heatmaps :
         /\ returned.ct_heatmaps[c] \in {HZero, HOne}
         /\ returned.ct_heatmaps[c] = HOne <=>
              \E i \in 0..(Count - 1) : c = <<Fy(i), Fx(i), ClassId(i)>>
    /\ radius = Unset
    /\ estimator_calls = <<>>
    /\ renderer_calls = <<>>

\* two instances written to the same cell, which holds 1
C7_Witness ==
  /\ Done
  /\ ~use_gaussian_bump
  /\ Count = 2
  /\ labels.bbox[1] # labels.bbox[2]
  /\ <<Fy(0), Fx(0), ClassId(0)>> = <<Fy(1), Fx(1), ClassId(1)>>
  /\ <<Fy(0), Fx(0), ClassId(0)>> \in DOMAIN returned.ct_heatmaps
  /\ returned.ct_heatmaps[<<Fy(0), Fx(0), ClassId(0)>>] = HOne

\* the scaled centre and extent of instance i, from its own box alone
BoxOf(i) == [j \in 1..4 |-> RoundTo(dtype, labels.bbox[i + 1][j])]
Cy(i) ==
  ScaledCenter(BoxOf(i)[1], BoxOf(i)[3],
               Ratio(output_size[1], input_size[1], dtype), dtype)
Cx(i) ==
  ScaledCenter(BoxOf(i)[2], BoxOf(i)[4],
               Ratio(output_size[2], input_size[2], dtype), dtype)
Hgt(i) ==
  ScaledExtent(BoxOf(i)[1], BoxOf(i)[3],
               Ratio(output_size[1], input_size[1], dtype), dtype)
Wid(i) ==
  ScaledExtent(BoxOf(i)[2], BoxOf(i)[4],
               Ratio(output_size[2], input_size[2], dtype), dtype)

(* C8: row i < count of the per-instance tensors comes from instance i
   alone: ct_offset[i] = (cy - fy, cx - fx), size[i] = (h, w), box_indices[i]
   = (fy, fx), all in the working dtype; instances sharing (fy, fx, class)
   keep their own rows. *)
C8_RowsOfOwnInstance ==
  Done =>
    \A i \in 0..(Count - 1) :
      /\ Row(returned.ct_offset, i) =
           <<FSub(dtype, Cy(i), FFloor(Cy(i))),
             FSub(dtype, Cx(i), FFloor(Cx(i)))>>
      /\ Row(returned.size, i) = <<Hgt(i), Wid(i)>>
      /\ Row(returned.box_indices, i) =
           <<ToInt(FFloor(Cy(i))), ToInt(FFloor(Cx(i)))>>

\* two instances of one cell and class whose rows differ
C8_Witness ==
  /\ Done
  /\ Count = 2
  /\ <<Fy(0), Fx(0), ClassId(0)>> = <<Fy(1), Fx(1), ClassId(1)>>
  /\ Row(returned.box_indices, 0) = Row(returned.box_indices, 1)
  /\ Row(returned.ct_offset, 0) # Row(returned.ct_offset, 1)
  /\ Row(returned.size, 0) # Row(returned.size, 1)
  /\ Row(returned.size, 0)[1] # Row(returned.size, 0)[2]

\* the Gaussian branch has run
Rendered == use_gaussian_bump /\ pc \in {"encode", "return", "done"}

\* x is an integer >= 1
IsPositiveInt(x) == x[2] >= 0 /\ x[1] >= 1

\* max(floor(estimate(ceil(h), ceil(w), iou)), 1) for 1-based row k
FlooredEstimate(k) ==
  LET e == FFloor(gaussian_radius(<<FCeil(box_heights_widths[k][1]),
                                    FCeil(box_heights_widths[k][2])>>,
                                  gaussian_iou))
  IN  IF FLess(e, FOne) THEN FOne ELSE e

(* C9 as stated: the radius handed to the renderer for every valid instance
   is a positive integer; with gaussian_rad = -1 it is
   max(floor(estimate(ceil(h), ceil(w), iou)), 1), with any other
   gaussian_rad the estimator is not called and it is exactly gaussian_rad. *)
C9_AsStated ==
  Rendered =>
    /\ Len(radius) = Count
    /\ Len(renderer_calls) = Count
    /\ \A k \in 1..Count :
         /\ renderer_calls[k][4] = radius[k]
         /\ IsPositiveInt(radius[k])
         /\ gaussian_rad = -1 =>
              /\ radius[k] = FlooredEstimate(k)
              /\ estimator_calls[k] =
                   <<<<FCeil(box_heights_widths[k][1]),
                       FCeil(box_heights_widths[k][2])>>, gaussian_iou>>
         /\ gaussian_rad # -1 =>
              /\ estimator_calls = <<>>
              /\ radius[k] = I(gaussian_rad)

(* C9 amended: one radius per valid instance is handed to the renderer; with
   gaussian_rad = -1 it is max(floor(estimate(ceil(h), ceil(w), iou)), 1), a
   positive integer; with any other gaussian_rad the estimator is not called
   and every radius is gaussian_rad cast to the dtype, with no floor: it is
   positive only for gaussian_rad >= 1. *)
C9_RadiusHandedOver ==
  Rendered =>
    /\ Len(radius) = Count
    /\ Len(renderer_calls) = Count
    /\ gaussian_rad = -1 => Len(estimator_calls) = Count
    /\ \A k \in 1..Count :
         /\ renderer_calls[k][4] = radius[k]
         /\ gaussian_rad = -1 =>
              /\ radius[k] = FlooredEstimate(k)
              /\ IsPositiveInt(radius[k])
              /\ estimator_calls[k] =
                   <<<<FCeil(box_heights_widths[k][1]),
                       FCeil(box_heights_widths[k][2])>>, gaussian_iou>>
         /\ gaussian_rad # -1 =>
              /\ estimator_calls = <<>>
              /\ radius[k] = RoundTo(dtype, I(gaussian_rad))
              /\ IsPositiveInt(radius[k]) <=> gaussian_rad >= 1

\* the estimate of some instance was below 1 and was raised to 1
C9_Witness ==
  /\ Rendered
  /\ gaussian_rad = -1
  /\ Count = 2
  /\ \E k \in 1..Count :
       /\ FLess(gaussian_radius(estimator_calls[k][1], gaussian_iou), FOne)
       /\ radius[k] = FOne
  /\ \E k \in 1..Count : FLess(FOne, radius[k])

\* box i lies inside the input image and has positive area
InsideImage(i) ==
  LET b == labels.bbox[i + 1]
  IN  /\ ~FLess(b[1], FZero) /\ FLess(b[1], b[3])
      /\ ~FLess(I(input_size[1]), b[3])
      /\ ~FLess(b[2], FZero) /\ FLess(b[2], b[4])
      /\ ~FLess(I(input_size[2]), b[4])

\* 0 <= x < 1
InUnitInterval(x) == ~FLess(x, FZero) /\ FLess(x, FOne)

(* C10 as stated: for every valid instance whose box lies inside the input
   image with positive area, box_indices[i] is a cell of the heatmap grid
   and both components of ct_offset[i] lie in [0, 1). *)
C10_AsStated ==
  Done =>
    \A i \in 0..(Count - 1) :
      InsideImage(i) =>
        /\ Row(returned.box_indices, i)[1] \in 0..(output_size[1] - 1)
        /\ Row(returned.box_indices, i)[2] \in 0..(output_size[2] - 1)
        /\ InUnitInterval(Row(returned.ct_offset, i)[1])
        /\ InUnitInterval(Row(returned.ct_offset, i)[2])

====
